---- MODULE Spec2Model ----
(***************************************************************************)
(* Model of the configuration store of src/rpc/parity_api.go (package      *)
(* mysql, type confStore): one flat table `configs` of conf rows, the      *)
(* upsert / delete / load operations on it, the reorg version counter and  *)
(* the three domain decoders with their single and bulk loaders.           *)
(*                                                                         *)
(* Every SQL statement the code issues is one atomic step on the table.    *)
(* Names and values are real strings; prefixes are stripped by slicing.    *)
(*                                                                         *)
(* Spec       the record store: StoreConfig, DeleteConfig, LoadConfig      *)
(* SpecLoad   the record store under the single and bulk loaders           *)
(* SpecBump   callers of createOrUpdateReorgVersion, not serialized        *)
(* SpecSerial callers of createOrUpdateReorgVersion, one at a time         *)
(* SpecClock  the record store while the clock of the timestamps runs      *)
(* SpecPayload rows with well-formed payloads under the loaders, with the  *)
(*            fingerprints of the allow-list bulk loads recorded           *)
(* SpecReorg  the reorg.version row written from outside and bumped        *)
(* SpecRoute  StoreNodeRouteGroup, DelNodeRouteGroup, LoadNodeRouteGroups  *)
(***************************************************************************)
EXTENDS Integers, Sequences, FiniteSets, TLC

(***************************************************************************)
(* Program constants (lines 31-45).                                        *)
(***************************************************************************)
MysqlConfKeyReorgVersion == "reorg.version"

RateLimitStrategyConfKeyPrefix == "ratelimit.strategy."

AclAllowListConfKeyPrefix == "acl.allowlist."

NodeRouteGroupConfKeyPrefix == "noderoute.group."

(***************************************************************************)
(* Bounds of the model.                                                    *)
(***************************************************************************)
\* number of rows the AUTO_INCREMENT column hands out before inserts stop
MaxId == 2

\* last instant of the wall clock
MaxClock == 1

\* number of createOrUpdateReorgVersion calls that are started
MaxBumps == 5

\* number of concurrent callers of createOrUpdateReorgVersion
NumCallers == 3

Callers == 1..NumCallers

(***************************************************************************)
(* Inputs: the logical names, the store keys and the values the callers    *)
(* pass.                                                                   *)
(***************************************************************************)
LogicalNames == {"", "a"}

Prefixes ==
  {RateLimitStrategyConfKeyPrefix, AclAllowListConfKeyPrefix, NodeRouteGroupConfKeyPrefix}

Names ==
  {MysqlConfKeyReorgVersion} \cup {p \o l : p \in Prefixes, l \in LogicalNames}

\* the name lists passed to LoadConfig
LoadArgs == {{n} : n \in Names} \cup {Names}

\* the names stored while the clock runs
ClockNames == {MysqlConfKeyReorgVersion, AclAllowListConfKeyPrefix \o "a"}

\* the group lists passed to LoadNodeRouteGroups
GroupArgs == {<<>>} \cup {<<l>> : l \in LogicalNames}

\* values stored under reorg.version from outside the bump: a version, and two
\* texts that are no decimal integer
ReorgValues == {"7", "7x", ""}

\* the groups passed to StoreNodeRouteGroup: the ID of the argument is not used
NodeLists == {<<>>, <<"u", "v">>, <<"v", "u">>}
RouteGroups == [ID : {0}, Name : LogicalNames, Nodes : NodeLists]

Values == {"{\"nodes\":[\"u\",\"v\"]}", "{\"nodes\":"}

\* rows of the three domains with a non-empty logical name, and two well-formed
\* payloads for them, the second carrying fields named like the identity fields
PayloadLogicalNames == {"a"}
PayloadNames == {p \o l : p \in Prefixes, l \in PayloadLogicalNames}
PayloadValues == {"{\"nodes\":[\"u\",\"v\"]}", "{\"id\":7,\"name\":\"x\",\"nodes\":[\"w\"]}"}

(***************************************************************************)
(* Strings.                                                                *)
(***************************************************************************)
\* Go's s[n:]; the caller checks n <= len(s), otherwise the slice panics
SliceFrom(s, n) == SubSeq(s, n + 1, Len(s))

\* SQL `name LIKE prefix%` for a prefix without wildcard characters
HasPrefix(s, p) == Len(s) >= Len(p) /\ SubSeq(s, 1, Len(p)) = p

IsDigit(c) == c \in {"0", "1", "2", "3", "4", "5", "6", "7", "8", "9"}

DigitVal(c) ==
  CASE c = "0" -> 0 [] c = "1" -> 1 [] c = "2" -> 2 [] c = "3" -> 3
    [] c = "4" -> 4 [] c = "5" -> 5 [] c = "6" -> 6 [] c = "7" -> 7
    [] c = "8" -> 8 [] c = "9" -> 9

DigitChar(d) ==
  CASE d = 0 -> "0" [] d = 1 -> "1" [] d = 2 -> "2" [] d = 3 -> "3"
    [] d = 4 -> "4" [] d = 5 -> "5" [] d = 6 -> "6" [] d = 7 -> "7"
    [] d = 8 -> "8" [] d = 9 -> "9"

RECURSIVE AllDigits(_)
AllDigits(s) == s = "" \/ (IsDigit(Head(s)) /\ AllDigits(Tail(s)))

RECURSIVE DigitsVal(_, _)
DigitsVal(s, acc) ==
  IF s = "" THEN acc ELSE DigitsVal(Tail(s), acc * 10 + DigitVal(Head(s)))

RECURSIVE DigitsOf(_)
DigitsOf(n) == IF n < 10 THEN DigitChar(n) ELSE DigitsOf(n \div 10) \o DigitChar(n % 10)

\* strconv.Itoa
Itoa(n) == IF n < 0 THEN "-" \o DigitsOf(-n) ELSE DigitsOf(n)

\* strconv.Atoi: an optional sign, then one or more decimal digits
Atoi(s) ==
  LET signed == s /= "" /\ Head(s) \in {"+", "-"}
      body == IF signed THEN Tail(s) ELSE s
  IN IF body = "" \/ ~AllDigits(body)
     THEN [err |-> "ErrSyntax", val |-> 0]
     ELSE [err |-> "nil",
           val |-> IF signed /\ Head(s) = "-" THEN -DigitsVal(body, 0) ELSE DigitsVal(body, 0)]

(***************************************************************************)
(* encoding/json, for texts without whitespace and escape sequences: a     *)
(* parsed value is a record tagged with its kind.                          *)
(***************************************************************************)
JNull == [t |-> "null"]

JFail == [ok |-> FALSE, rest |-> "", v |-> JNull]

JOk(v, rest) == [ok |-> TRUE, rest |-> rest, v |-> v]

RECURSIVE ScanString(_, _)
ScanString(s, acc) ==
  IF s = "" THEN JFail
  ELSE IF Head(s) = "\"" THEN JOk([t |-> "str", s |-> acc], Tail(s))
  ELSE ScanString(Tail(s), acc \o Head(s))

RECURSIVE ScanDigits(_, _)
ScanDigits(s, acc) ==
  IF s /= "" /\ IsDigit(Head(s)) THEN ScanDigits(Tail(s), acc \o Head(s))
  ELSE IF acc = "" \/ acc = "-" THEN JFail
  ELSE JOk([t |-> "num", n |-> acc], s)

RECURSIVE ParseValue(_), ParseElements(_, _), ParseMembers(_, _)
ParseValue(s) ==
  IF s = "" THEN JFail
  ELSE IF HasPrefix(s, "null") THEN JOk(JNull, SliceFrom(s, 4))
  ELSE IF HasPrefix(s, "true") THEN JOk([t |-> "bool", b |-> TRUE], SliceFrom(s, 4))
  ELSE IF HasPrefix(s, "false") THEN JOk([t |-> "bool", b |-> FALSE], SliceFrom(s, 5))
  ELSE IF Head(s) = "\"" THEN ScanString(Tail(s), "")
  ELSE IF Head(s) = "-" THEN ScanDigits(Tail(s), "-")
  ELSE IF IsDigit(Head(s)) THEN ScanDigits(s, "")
  ELSE IF Head(s) = "[" THEN
    (IF HasPrefix(s, "[]") THEN JOk([t |-> "arr", a |-> <<>>], SliceFrom(s, 2))
     ELSE ParseElements(Tail(s), <<>>))
  ELSE IF Head(s) = "{" THEN
    (IF HasPrefix(s, "{}") THEN JOk([t |-> "obj", o |-> <<>>], SliceFrom(s, 2))
     ELSE ParseMembers(Tail(s), <<>>))
  ELSE JFail

\* the elements of an array after "[" or ","
ParseElements(s, acc) ==
  LET e == ParseValue(s)
  IN IF ~e.ok \/ e.rest = "" THEN JFail
     ELSE IF Head(e.rest) = "," THEN ParseElements(Tail(e.rest), Append(acc, e.v))
     ELSE IF Head(e.rest) = "]" THEN JOk([t |-> "arr", a |-> Append(acc, e.v)], Tail(e.rest))
     ELSE JFail

\* the members of an object after "{" or ","
ParseMembers(s, acc) ==
  IF s = "" \/ Head(s) /= "\"" THEN JFail
  ELSE LET k == ScanString(Tail(s), "")
       IN IF ~k.ok \/ k.rest = "" \/ Head(k.rest) /= ":" THEN JFail
          ELSE LET e == ParseValue(Tail(k.rest))
               IN IF ~e.ok \/ e.rest = "" THEN JFail
                  ELSE IF Head(e.rest) = ","
                    THEN ParseMembers(Tail(e.rest), Append(acc, <<k.v.s, e.v>>))
                  ELSE IF Head(e.rest) = "}"
                    THEN JOk([t |-> "obj", o |-> Append(acc, <<k.v.s, e.v>>)], Tail(e.rest))
                  ELSE JFail

\* the whole text is one JSON value
JsonParse(data) ==
  LET r == ParseValue(data)
  IN IF r.ok /\ r.rest = "" THEN r ELSE JFail

\* json.Unmarshal(data, al) and json.Unmarshal(data, stg): the targets are structs
\* of other packages; a JSON object or null decodes, anything else is an error
UnmarshalPolicy(data) ==
  LET r == JsonParse(data)
  IN IF ~r.ok THEN [err |-> "SyntaxError"]
     ELSE IF r.v.t = "obj" THEN [err |-> "nil", fields |-> r.v.o]
     ELSE IF r.v.t = "null" THEN [err |-> "nil", fields |-> <<>>]
     ELSE [err |-> "UnmarshalTypeError"]

\* the key of field Nodes `json:"nodes"`, matched without regard to case
FoldChar(c) ==
  CASE c = "N" -> "n" [] c = "O" -> "o" [] c = "D" -> "d" [] c = "E" -> "e"
    [] c = "S" -> "s" [] OTHER -> c

RECURSIVE Fold(_)
Fold(s) == IF s = "" THEN "" ELSE FoldChar(Head(s)) \o Fold(Tail(s))

\* a JSON array decoded into []string: strings, and null for the zero value
StringsOf(a) ==
  IF \A i \in 1..Len(a) : a[i].t \in {"str", "null"}
  THEN [err |-> "nil", strs |-> [i \in 1..Len(a) |-> IF a[i].t = "str" THEN a[i].s ELSE ""]]
  ELSE [err |-> "UnmarshalTypeError"]

\* the members of a JSON object assigned in order to field Nodes
RECURSIVE AssignNodes(_, _)
AssignNodes(o, nodes) ==
  IF o = <<>> THEN [err |-> "nil", Nodes |-> nodes]
  ELSE LET key == Head(o)[1]
           val == Head(o)[2]
       IN IF Fold(key) /= "nodes" \/ val.t = "null" THEN AssignNodes(Tail(o), nodes)
          ELSE IF val.t /= "arr" THEN [err |-> "UnmarshalTypeError"]
          ELSE IF StringsOf(val.a).err /= "nil" THEN [err |-> "UnmarshalTypeError"]
          ELSE AssignNodes(Tail(o), StringsOf(val.a).strs)

\* json.Unmarshal(data, &grp) for grp of type NodeRouteGroup: ID and Name are `json:"-"`
UnmarshalNodeRouteGroup(data) ==
  LET r == JsonParse(data)
  IN IF ~r.ok THEN [err |-> "SyntaxError"]
     ELSE IF r.v.t = "obj" THEN AssignNodes(r.v.o, <<>>)
     ELSE IF r.v.t = "null" THEN [err |-> "nil", Nodes |-> <<>>]
     ELSE [err |-> "UnmarshalTypeError"]

\* md5.Sum([]byte(value)): the digest, as a function of the bytes
md5Sum(value) == [md5 |-> value]

(***************************************************************************)
(* State.                                                                  *)
(***************************************************************************)
VARIABLES
  configs,    \* the rows of table `configs`: a set of conf records
  autoInc,    \* the next value of the AUTO_INCREMENT column id
  now,        \* the wall clock read by gorm for created_at / updated_at
  pc,         \* per caller: position inside createOrUpdateReorgVersion
  version,    \* per caller: the local `version` of createOrUpdateReorgVersion
  ret,        \* the call that returned last, with its results
  allocated,  \* history: the id and name of every row the table ever had
  bumps,      \* history: number of createOrUpdateReorgVersion calls that returned nil
  overlapped, \* history: some bump started while another was between read and write
  seen        \* history: the fingerprints of the last two allow-list bulk loads (kept when seen.on)

vars == <<configs, autoInc, now, pc, version, ret, allocated, bumps, overlapped, seen>>

\* type conf struct
conf(id, name, value, createdAt, updatedAt) ==
  [ID |-> id, Name |-> name, Value |-> value, CreatedAt |-> createdAt, UpdatedAt |-> updatedAt]

RowsNamed(tbl, name) == {c \in tbl : c.Name = name}

\* the empty map; a nil map reads the same
NoEntries == [id \in {} |-> 0]

\* the empty table of a new database, no call made
InitStore ==
  /\ configs = {}
  /\ autoInc = 1
  /\ now = 0
  /\ pc = [c \in Callers |-> "idle"]
  /\ version = [c \in Callers |-> 0]
  /\ ret = [op |-> "none"]
  /\ allocated = {}
  /\ bumps = 0
  /\ overlapped = FALSE

Init ==
  /\ InitStore
  /\ seen = [on |-> FALSE, prev |-> NoEntries, cur |-> NoEntries]

\* the same, with the fingerprints of the allow-list bulk loads recorded
InitPayload ==
  /\ InitStore
  /\ seen = [on |-> TRUE, prev |-> NoEntries, cur |-> NoEntries]

(***************************************************************************)
(* Record store.                                                           *)
(***************************************************************************)
\* faulty variants of Upserted: no conflict clause; value not assigned; row replaced
UpsertedAlwaysInsert(tbl, id, confName, confVal, t) ==
  tbl \cup {conf(id, confName, confVal, t, t)}
UpsertedKeepValue(tbl, id, confName, confVal, t) ==
  IF RowsNamed(tbl, confName) = {}
  THEN tbl \cup {conf(id, confName, confVal, t, t)}
  ELSE tbl
UpsertedNewId(tbl, id, confName, confVal, t) ==
  (tbl \ RowsNamed(tbl, confName)) \cup {conf(id, confName, confVal, t, t)}
\* the table after INSERT ... ON DUPLICATE KEY UPDATE value = confVal: a new row
\* with both timestamps, or the row of that name with only its value assigned
Upserted(tbl, id, confName, confVal, t) ==
  IF RowsNamed(tbl, confName) = {}
  THEN tbl \cup {conf(id, confName, confVal, t, t)}
  ELSE {IF c.Name = confName THEN [c EXCEPT !.Value = confVal] ELSE c : c \in tbl}

\* faulty variant of InsertId: the counter restarts after the largest id in the table
InsertIdReuse(tbl, counter) ==
  IF tbl = {} THEN 1 ELSE (CHOOSE m \in {c.ID : c \in tbl} : \A c \in tbl : c.ID <= m) + 1
\* the id the AUTO_INCREMENT column gives to an inserted row: the counter, which
\* never goes back
InsertId(tbl, counter) == counter

\* the write of StoreConfig, shared with createOrUpdateReorgVersion
StoreConfigWrite(confName, confVal) ==
  LET inserts == RowsNamed(configs, confName) = {}
      id == InsertId(configs, autoInc)
  IN /\ inserts => id <= MaxId
     /\ configs' = Upserted(configs, id, confName, confVal, now)
     /\ autoInc' = IF inserts THEN id + 1 ELSE autoInc
     /\ allocated' = IF inserts THEN allocated \cup {[ID |-> id, Name |-> confName]} ELSE allocated

StoreConfig(confName, confVal) ==
  /\ StoreConfigWrite(confName, confVal)
  /\ ret' = [op |-> "StoreConfig", name |-> confName, value |-> confVal, err |-> "nil"]
  /\ UNCHANGED <<now, pc, version, bumps, overlapped, seen>>

\* the rows left by DELETE FROM configs WHERE name = confName
Deleted(tbl, confName) == tbl \ RowsNamed(tbl, confName)

\* faulty variant of RowsAffected
RowsAffectedAlways(tbl, confName) == TRUE
\* res.RowsAffected > 0
RowsAffected(tbl, confName) == Cardinality(RowsNamed(tbl, confName)) > 0

DeleteConfig(confName) ==
  /\ configs' = Deleted(configs, confName)
  /\ ret' = [op |-> "DeleteConfig", name |-> confName,
             existed |-> RowsAffected(configs, confName), err |-> "nil"]
  /\ UNCHANGED <<autoInc, now, pc, version, allocated, bumps, overlapped, seen>>

\* the mapping LoadConfig builds from SELECT ... WHERE name IN confNames
LoadConfigRes(tbl, confNames) ==
  LET confs == {c \in tbl : c.Name \in confNames}
  IN [n \in {c.Name : c \in confs} |-> (CHOOSE c \in confs : c.Name = n).Value]

LoadConfig(confNames) ==
  /\ ret' = [op |-> "LoadConfig", names |-> confNames,
             res |-> LoadConfigRes(configs, confNames), err |-> "nil"]
  /\ UNCHANGED <<configs, autoInc, now, pc, version, allocated, bumps, overlapped, seen>>

(***************************************************************************)
(* Reorg version.                                                          *)
(***************************************************************************)
\* cs.exists(&result, "name = ?", name): the row found, if any
Exists(tbl, name) ==
  IF RowsNamed(tbl, name) = {}
  THEN [exists |-> FALSE, err |-> "nil"]
  ELSE [exists |-> TRUE, err |-> "nil", result |-> CHOOSE c \in tbl : c.Name = name]

\* faulty variant of GetReorgVersionRes: a value that does not parse reads as 0
GetReorgVersionResZeroOnSyntax(tbl) ==
  LET found == Exists(tbl, MysqlConfKeyReorgVersion)
  IN IF found.err /= "nil" THEN [val |-> 0, err |-> found.err]
     ELSE IF ~found.exists THEN [val |-> 0, err |-> "nil"]
     ELSE [val |-> Atoi(found.result.Value).val, err |-> "nil"]
\* what GetReorgVersion returns on table tbl
GetReorgVersionRes(tbl) ==
  LET found == Exists(tbl, MysqlConfKeyReorgVersion)
  IN IF found.err /= "nil" THEN [val |-> 0, err |-> found.err]
     ELSE IF ~found.exists THEN [val |-> 0, err |-> "nil"]
     ELSE Atoi(found.result.Value)

GetReorgVersion ==
  /\ ret' = [op |-> "GetReorgVersion", val |-> GetReorgVersionRes(configs).val,
             err |-> GetReorgVersionRes(configs).err]
  /\ UNCHANGED <<configs, autoInc, now, pc, version, allocated, bumps, overlapped, seen>>

\* callers that have read the version and not yet written it
Pending == {c \in Callers : pc[c] = "store"}

\* createOrUpdateReorgVersion, line 118: version, err := cs.GetReorgVersion()
BumpRead(c) ==
  /\ pc[c] = "idle"
  /\ bumps + Cardinality(Pending) < MaxBumps
  /\ LET r == GetReorgVersionRes(configs)
     IN IF r.err /= "nil"
        THEN /\ ret' = [op |-> "createOrUpdateReorgVersion", caller |-> c, err |-> r.err]
             /\ UNCHANGED <<pc, version, overlapped>>
        ELSE /\ version' = [version EXCEPT ![c] = r.val]
             /\ pc' = [pc EXCEPT ![c] = "store"]
             /\ overlapped' = (overlapped \/ Pending /= {})
             /\ UNCHANGED ret
  /\ UNCHANGED <<configs, autoInc, now, allocated, bumps, seen>>

\* faulty variants of NewVersion
NewVersionDown(v) == Itoa(v - 1)
NewVersionSame(v) == Itoa(v)
\* line 123: newVersion := strconv.Itoa(version + 1)
NewVersion(v) == Itoa(v + 1)

\* createOrUpdateReorgVersion, line 125: cs.StoreConfig(MysqlConfKeyReorgVersion, newVersion)
BumpWrite(c) ==
  /\ pc[c] = "store"
  /\ StoreConfigWrite(MysqlConfKeyReorgVersion, NewVersion(version[c]))
  /\ pc' = [pc EXCEPT ![c] = "idle"]
  /\ bumps' = bumps + 1
  /\ ret' = [op |-> "createOrUpdateReorgVersion", caller |-> c, err |-> "nil"]
  /\ UNCHANGED <<now, version, overlapped, seen>>

\* the caller's external mutual exclusion: a bump starts only when none is in progress
BumpReadSerialized(c) ==
  /\ Pending = {}
  /\ BumpRead(c)

(***************************************************************************)
(* Domain decoders.  A decoder returns [err, obj]; err = "panic" is the    *)
(* run-time panic of slicing a name shorter than the prefix.               *)
(***************************************************************************)
\* faulty variant of decodeAclAllowLists: the logical name is not checked
decodeAclAllowListsNoNameCheck(cfg) ==
  LET name == SliceFrom(cfg.Name, Len(AclAllowListConfKeyPrefix))
      al == UnmarshalPolicy(cfg.Value)
  IN IF al.err /= "nil" THEN [err |-> al.err]
     ELSE [err |-> "nil", obj |-> [ID |-> cfg.ID, Name |-> name, fields |-> al.fields]]
decodeAclAllowLists(cfg) ==
  IF Len(cfg.Name) < Len(AclAllowListConfKeyPrefix) THEN [err |-> "panic"]
  ELSE LET name == SliceFrom(cfg.Name, Len(AclAllowListConfKeyPrefix))
           al == UnmarshalPolicy(cfg.Value)
       IN IF Len(name) = 0 THEN [err |-> "allowlist name is too short"]
          ELSE IF al.err /= "nil" THEN [err |-> al.err]
          ELSE [err |-> "nil", obj |-> [ID |-> cfg.ID, Name |-> name, fields |-> al.fields]]

\* faulty variant of decodeRateLimitStrategy: the payload is decoded before the
\* logical name is looked at, so a well-formed payload yields an object
decodeRateLimitStrategyPayloadFirst(cfg) ==
  LET name == SliceFrom(cfg.Name, Len(RateLimitStrategyConfKeyPrefix))
      stg == UnmarshalPolicy(cfg.Value)
  IN IF stg.err = "nil"
     THEN [err |-> "nil", obj |-> [ID |-> cfg.ID, Name |-> name, fields |-> stg.fields]]
     ELSE IF Len(name) = 0 THEN [err |-> "strategy name is too short"]
     ELSE [err |-> stg.err]
decodeRateLimitStrategy(cfg) ==
  IF Len(cfg.Name) < Len(RateLimitStrategyConfKeyPrefix) THEN [err |-> "panic"]
  ELSE LET name == SliceFrom(cfg.Name, Len(RateLimitStrategyConfKeyPrefix))
           stg == UnmarshalPolicy(cfg.Value)
       IN IF Len(name) = 0 THEN [err |-> "strategy name is too short"]
          ELSE IF stg.err /= "nil" THEN [err |-> stg.err]
          ELSE [err |-> "nil", obj |-> [ID |-> cfg.ID, Name |-> name, fields |-> stg.fields]]

\* faulty variant of decodeNodeRouteGroup: field Name is decoded from the payload's
\* member "name", as it would be without its `json:"-"` tag
decodeNodeRouteGroupNameFromPayload(cfg) ==
  LET name == SliceFrom(cfg.Name, Len(NodeRouteGroupConfKeyPrefix))
      grp == UnmarshalNodeRouteGroup(cfg.Value)
      r == JsonParse(cfg.Value)
      o == IF r.ok /\ r.v.t = "obj" THEN r.v.o ELSE <<>>
      named == {i \in 1..Len(o) : Fold(o[i][1]) = "name" /\ o[i][2].t = "str"}
  IN IF Len(name) = 0 THEN [err |-> "route group name is too short"]
     ELSE IF grp.err /= "nil" THEN [err |-> grp.err]
     ELSE [err |-> "nil",
           obj |-> [ID |-> cfg.ID,
                    Name |-> IF named = {} THEN name ELSE o[CHOOSE i \in named : TRUE][2].s,
                    Nodes |-> grp.Nodes]]
decodeNodeRouteGroup(cfg) ==
  IF Len(cfg.Name) < Len(NodeRouteGroupConfKeyPrefix) THEN [err |-> "panic"]
  ELSE LET name == SliceFrom(cfg.Name, Len(NodeRouteGroupConfKeyPrefix))
           grp == UnmarshalNodeRouteGroup(cfg.Value)
       IN IF Len(name) = 0 THEN [err |-> "route group name is too short"]
          ELSE IF grp.err /= "nil" THEN [err |-> grp.err]
          ELSE [err |-> "nil", obj |-> [ID |-> cfg.ID, Name |-> name, Nodes |-> grp.Nodes]]

(***************************************************************************)
(* Queries.                                                                *)
(***************************************************************************)
\* db.Where("name = ?", name).First(&cfg)
FirstNamed(tbl, name) ==
  IF RowsNamed(tbl, name) = {} THEN [err |-> "ErrRecordNotFound"]
  ELSE [err |-> "nil", cfg |-> CHOOSE c \in tbl : c.Name = name]

\* the row with the smallest primary key
FirstOf(rows) == CHOOSE c \in rows : \A d \in rows : c.ID <= d.ID

\* cfg := conf{ID: id}; db.First(&cfg): a non-zero primary key is the condition,
\* a zero one is no condition; the rows are ordered by primary key
FirstById(tbl, id) ==
  LET rows == IF id /= 0 THEN {c \in tbl : c.ID = id} ELSE tbl
  IN IF rows = {} THEN [err |-> "ErrRecordNotFound"]
     ELSE [err |-> "nil", cfg |-> FirstOf(rows)]

\* faulty variant of FindLike: the pattern matches every name
FindLikeAny(tbl, prefix) == tbl
\* db.Where("name LIKE ?", prefix + "%").Find(&cfgs)
FindLike(tbl, prefix) == {c \in tbl : HasPrefix(c.Name, prefix)}

\* the rows of a bulk load that decode; decoded[v] is the decoder's result on row v
Decodable(cfgs, decoded) == {v \in cfgs : decoded[v].err = "nil"}

\* faulty variant of Bulk: the first row that fails to decode fails the load
BulkFailFast(cfgs, decoded) ==
  IF \E v \in cfgs : decoded[v].err /= "nil"
  THEN [err |-> "decode", objs |-> NoEntries, checksums |-> NoEntries]
  ELSE [err |-> "nil",
        objs |-> [id \in {v.ID : v \in cfgs} |-> decoded[CHOOSE v \in cfgs : v.ID = id].obj],
        checksums |-> [id \in {v.ID : v \in cfgs} |->
                         md5Sum((CHOOSE v \in cfgs : v.ID = id).Value)]]
\* faulty variant of Bulk: every row gets a fingerprint, the skipped ones as well
BulkSumsAll(cfgs, decoded) ==
  LET good == Decodable(cfgs, decoded)
  IN [err |-> "nil",
      objs |-> [id \in {v.ID : v \in good} |-> decoded[CHOOSE v \in good : v.ID = id].obj],
      checksums |-> [id \in {v.ID : v \in cfgs} |->
                       md5Sum((CHOOSE v \in cfgs : v.ID = id).Value)]]
\* faulty variant of Bulk: the fingerprint is taken of the row's name
BulkSumOfName(cfgs, decoded) ==
  LET good == Decodable(cfgs, decoded)
  IN [err |-> "nil",
      objs |-> [id \in {v.ID : v \in good} |-> decoded[CHOOSE v \in good : v.ID = id].obj],
      checksums |-> [id \in {v.ID : v \in good} |->
                       md5Sum((CHOOSE v \in good : v.ID = id).Name)]]
\* the id-keyed maps of a bulk load: rows that fail to decode are skipped
Bulk(cfgs, decoded) ==
  IF Cardinality(cfgs) = 0
  THEN [err |-> "nil", objs |-> NoEntries, checksums |-> NoEntries]
  ELSE LET good == Decodable(cfgs, decoded)
       IN [err |-> "nil",
           objs |-> [id \in {v.ID : v \in good} |-> decoded[CHOOSE v \in good : v.ID = id].obj],
           checksums |-> [id \in {v.ID : v \in good} |->
                            md5Sum((CHOOSE v \in good : v.ID = id).Value)]]

(***************************************************************************)
(* Access control config.                                                  *)
(***************************************************************************)
LoadAclAllowListRes(tbl, name) ==
  LET found == FirstNamed(tbl, AclAllowListConfKeyPrefix \o name)
  IN IF found.err /= "nil" THEN [err |-> found.err] ELSE decodeAclAllowLists(found.cfg)

LoadAclAllowList(name) ==
  /\ ret' = [op |-> "LoadAclAllowList", name |-> name, res |-> LoadAclAllowListRes(configs, name)]
  /\ UNCHANGED <<configs, autoInc, now, pc, version, allocated, bumps, overlapped, seen>>

LoadAclAllowListByIdRes(tbl, aclID) ==
  LET found == FirstById(tbl, aclID)
  IN IF found.err /= "nil" THEN [err |-> found.err] ELSE decodeAclAllowLists(found.cfg)

LoadAclAllowListById(aclID) ==
  /\ ret' = [op |-> "LoadAclAllowListById", id |-> aclID,
             res |-> LoadAclAllowListByIdRes(configs, aclID)]
  /\ UNCHANGED <<configs, autoInc, now, pc, version, allocated, bumps, overlapped, seen>>

LoadAclAllowListConfigsRes(tbl) ==
  LET cfgs == FindLike(tbl, AclAllowListConfKeyPrefix)
  IN Bulk(cfgs, [v \in cfgs |-> decodeAclAllowLists(v)])

LoadAclAllowListConfigs ==
  /\ ret' = [op |-> "LoadAclAllowListConfigs", res |-> LoadAclAllowListConfigsRes(configs)]
  /\ seen' = IF seen.on
             THEN [seen EXCEPT !.prev = seen.cur, !.cur = ret'.res.checksums]
             ELSE seen
  /\ UNCHANGED <<configs, autoInc, now, pc, version, allocated, bumps, overlapped>>

(***************************************************************************)
(* Ratelimit config.                                                       *)
(***************************************************************************)
LoadRateLimitStrategyRes(tbl, name) ==
  LET found == FirstNamed(tbl, RateLimitStrategyConfKeyPrefix \o name)
  IN IF found.err /= "nil" THEN [err |-> found.err] ELSE decodeRateLimitStrategy(found.cfg)

LoadRateLimitStrategy(name) ==
  /\ ret' = [op |-> "LoadRateLimitStrategy", name |-> name,
             res |-> LoadRateLimitStrategyRes(configs, name)]
  /\ UNCHANGED <<configs, autoInc, now, pc, version, allocated, bumps, overlapped, seen>>

LoadRateLimitStrategyConfigsRes(tbl) ==
  LET cfgs == FindLike(tbl, RateLimitStrategyConfKeyPrefix)
  IN Bulk(cfgs, [v \in cfgs |-> decodeRateLimitStrategy(v)])

LoadRateLimitStrategyConfigs ==
  /\ ret' = [op |-> "LoadRateLimitStrategyConfigs",
             res |-> LoadRateLimitStrategyConfigsRes(configs)]
  /\ UNCHANGED <<configs, autoInc, now, pc, version, allocated, bumps, overlapped, seen>>

(***************************************************************************)
(* Node route config.                                                      *)
(***************************************************************************)
\* the rows LoadNodeRouteGroups selects: all of the domain, or the named groups
NodeRouteGroupRows(tbl, inclusiveGroups) ==
  LET nodeRouteGrpConfKeys ==
        [i \in 1..Len(inclusiveGroups) |-> NodeRouteGroupConfKeyPrefix \o inclusiveGroups[i]]
  IN IF Len(nodeRouteGrpConfKeys) = 0
     THEN FindLike(tbl, NodeRouteGroupConfKeyPrefix)
     ELSE {c \in tbl : \E i \in 1..Len(nodeRouteGrpConfKeys) : c.Name = nodeRouteGrpConfKeys[i]}

\* the name-keyed map of LoadNodeRouteGroups: rows that fail to decode are skipped
LoadNodeRouteGroupsRes(tbl, inclusiveGroups) ==
  LET cfgs == NodeRouteGroupRows(tbl, inclusiveGroups)
      good == Decodable(cfgs, [v \in cfgs |-> decodeNodeRouteGroup(v)])
  IN IF Cardinality(cfgs) = 0 THEN [err |-> "nil", res |-> NoEntries]
     ELSE [err |-> "nil",
           res |-> [n \in {decodeNodeRouteGroup(v).obj.Name : v \in good} |->
                      decodeNodeRouteGroup(CHOOSE v \in good :
                        decodeNodeRouteGroup(v).obj.Name = n).obj]]

LoadNodeRouteGroups(inclusiveGroups) ==
  /\ ret' = [op |-> "LoadNodeRouteGroups", groups |-> inclusiveGroups,
             res |-> LoadNodeRouteGroupsRes(configs, inclusiveGroups)]
  /\ UNCHANGED <<configs, autoInc, now, pc, version, allocated, bumps, overlapped, seen>>

\* json.Marshal of []string: the quoted strings between brackets; nodes is not empty
RECURSIVE MarshalStrings(_)
MarshalStrings(strs) ==
  IF Len(strs) = 1 THEN "\"" \o strs[1] \o "\""
  ELSE "\"" \o Head(strs) \o "\"," \o MarshalStrings(Tail(strs))

\* json.Marshal(routeGrp): ID and Name are left out, and Nodes without an element,
\* the nil slice, is null
MarshalNodeRouteGroup(routeGrp) ==
  IF routeGrp.Nodes = <<>> THEN "{\"nodes\":null}"
  ELSE "{\"nodes\":[" \o MarshalStrings(routeGrp.Nodes) \o "]}"

StoreNodeRouteGroup(routeGrp) ==
  /\ StoreConfigWrite(NodeRouteGroupConfKeyPrefix \o routeGrp.Name,
                      MarshalNodeRouteGroup(routeGrp))
  /\ ret' = [op |-> "StoreNodeRouteGroup", group |-> routeGrp, err |-> "nil"]
  /\ UNCHANGED <<now, pc, version, bumps, overlapped, seen>>

DelNodeRouteGroup(group) ==
  /\ configs' = Deleted(configs, NodeRouteGroupConfKeyPrefix \o group)
  /\ ret' = [op |-> "DelNodeRouteGroup", group |-> group, err |-> "nil"]
  /\ UNCHANGED <<autoInc, now, pc, version, allocated, bumps, overlapped, seen>>

\* time passes
Tick ==
  /\ now < MaxClock
  /\ now' = now + 1
  /\ UNCHANGED <<configs, autoInc, pc, version, ret, allocated, bumps, overlapped, seen>>

\* the record store: every call is one statement, so the calls of concurrent
\* callers take effect one after the other in any order
Next ==
  \/ \E n \in Names, v \in Values : StoreConfig(n, v)
  \/ \E n \in Names : DeleteConfig(n)
  \/ \E names \in LoadArgs : LoadConfig(names)
  \/ GetReorgVersion

Spec == Init /\ [][Next]_vars

\* the record store under the single and bulk loaders of the three domains
NextLoad ==
  \/ \E n \in Names, v \in Values : StoreConfig(n, v)
  \/ \E n \in Names : DeleteConfig(n)
  \/ \E l \in LogicalNames : LoadAclAllowList(l)
  \/ \E id \in 0..MaxId : LoadAclAllowListById(id)
  \/ LoadAclAllowListConfigs
  \/ \E l \in LogicalNames : LoadRateLimitStrategy(l)
  \/ LoadRateLimitStrategyConfigs
  \/ \E groups \in GroupArgs : LoadNodeRouteGroups(groups)

SpecLoad == Init /\ [][NextLoad]_vars

\* the record store while time passes
NextClock ==
  \/ \E n \in ClockNames, v \in Values : StoreConfig(n, v)
  \/ \E n \in ClockNames : DeleteConfig(n)
  \/ Tick

SpecClock == Init /\ [][NextClock]_vars

\* rows with well-formed payloads are stored, deleted and loaded by name and in bulk
NextPayload ==
  \/ \E n \in PayloadNames, v \in PayloadValues : StoreConfig(n, v)
  \/ \E n \in PayloadNames : DeleteConfig(n)
  \/ \E l \in PayloadLogicalNames : LoadAclAllowList(l)
  \/ LoadAclAllowListConfigs
  \/ \E l \in PayloadLogicalNames : LoadRateLimitStrategy(l)
  \/ LoadRateLimitStrategyConfigs
  \/ \E l \in PayloadLogicalNames : LoadNodeRouteGroups(<<l>>)

SpecPayload == InitPayload /\ [][NextPayload]_vars

\* callers bump the reorg version with no serialization between them
NextBump ==
  \/ \E c \in Callers : BumpRead(c)
  \/ \E c \in Callers : BumpWrite(c)
  \/ GetReorgVersion

SpecBump == Init /\ [][NextBump]_vars

\* the reorg.version row is written and deleted from outside while callers bump
\* it one at a time
NextReorg ==
  \/ \E v \in ReorgValues : StoreConfig(MysqlConfKeyReorgVersion, v)
  \/ DeleteConfig(MysqlConfKeyReorgVersion)
  \/ GetReorgVersion
  \/ \E c \in Callers : BumpReadSerialized(c)
  \/ \E c \in Callers : BumpWrite(c)

SpecReorg == Init /\ [][NextReorg]_vars

\* node route groups are stored, deleted and loaded
NextRoute ==
  \/ \E g \in RouteGroups : StoreNodeRouteGroup(g)
  \/ \E l \in LogicalNames : DelNodeRouteGroup(l)
  \/ \E a \in GroupArgs : LoadNodeRouteGroups(a)

SpecRoute == Init /\ [][NextRoute]_vars

\* callers bump the reorg version one at a time
NextSerial ==
  \/ \E c \in Callers : BumpReadSerialized(c)
  \/ \E c \in Callers : BumpWrite(c)
  \/ GetReorgVersion

SpecSerial == Init /\ [][NextSerial]_vars

(***************************************************************************)
(* Properties of the record store.                                         *)
(***************************************************************************)
\* the ids some row of the table ever had
EverIds == {a.ID : a \in allocated}

\* the step is the StoreConfig call that ret' records
StoreStep == ret'.op = "StoreConfig" /\ StoreConfig(ret'.name, ret'.value)

\* the step is the DeleteConfig call that ret' records
DeleteStep == ret'.op = "DeleteConfig" /\ DeleteConfig(ret'.name)

\* C1: a step that leaves a name in the table leaves its row's id as it was: an
\* upsert to an existing name never changes the id the row got when it was created
C1_UpsertKeepsId ==
  [][\A n \in Names : \A c \in RowsNamed(configs, n) : \A d \in RowsNamed(configs', n) :
       d.ID = c.ID]_vars

\* an upsert has just updated the row created first, after a second row was created
C1_Witness ==
  /\ ret.op = "StoreConfig"
  /\ \E c \in configs : c.Name = ret.name /\ c.ID = 1 /\ c.Value = ret.value
  /\ 2 \in EverIds

\* C2: right after StoreConfig(name, value), inserting or updating, LoadConfig(name)
\* is the mapping name -> value, and a LoadConfig returns exactly the names that
\* have a row, without error
C2_RoundTrip ==
  /\ [][StoreStep =>
          /\ LoadConfigRes(configs', {ret'.name}) = (ret'.name :> ret'.value)
          /\ \A m \in Names : LoadConfigRes(configs', {ret'.name, m})[ret'.name] = ret'.value]_vars
  /\ [](ret.op = "LoadConfig" =>
          /\ ret.err = "nil"
          /\ DOMAIN ret.res = {n \in ret.names : \E c \in configs : c.Name = n}
          /\ \A n \in DOMAIN ret.res : \E c \in configs : c.Name = n /\ c.Value = ret.res[n])

\* a load of all names returned the rows that exist and left out the names without a row
C2_Witness ==
  /\ ret.op = "LoadConfig"
  /\ ret.names = Names
  /\ Cardinality(DOMAIN ret.res) = 2
  /\ \E n \in DOMAIN ret.res : ret.res[n] = "{\"nodes\":"

\* C3: DeleteConfig(name) leaves no row of that name for a load by name, by pattern
\* or by id, and a row inserted later, under that name or any other, gets an id that
\* no row of the table ever had
C3_DeleteThenFreshId ==
  /\ [][DeleteStep =>
          /\ RowsNamed(configs', ret'.name) = {}
          /\ ret'.name \notin DOMAIN LoadConfigRes(configs', Names)
          /\ \A p \in Prefixes : \A c \in FindLike(configs', p) : c.Name /= ret'.name
          /\ \A c \in RowsNamed(configs, ret'.name) :
               FirstById(configs', c.ID).err = "ErrRecordNotFound"]_vars
  /\ [][(StoreStep /\ RowsNamed(configs, ret'.name) = {}) =>
          /\ RowsNamed(configs', ret'.name) /= {}
          /\ \A d \in RowsNamed(configs', ret'.name) : d.ID \notin EverIds]_vars

\* a name was stored, deleted and stored again: its row has the second id
C3_Witness ==
  /\ ret.op = "StoreConfig"
  /\ \E c \in configs : c.Name = ret.name /\ c.ID = 2
  /\ [ID |-> 1, Name |-> ret.name] \in allocated

\* C4: DeleteConfig of a name without a row returns existed = false and no error
\* and leaves the table as it was; of a name with a row it returns existed = true
C4_DeleteExisted ==
  [][DeleteStep =>
       /\ ret'.err = "nil"
       /\ RowsNamed(configs, ret'.name) = {} => (ret'.existed = FALSE /\ configs' = configs)
       /\ RowsNamed(configs, ret'.name) /= {} => ret'.existed = TRUE]_vars

\* a delete of an absent name returned false on a table that holds a row
C4_Witness ==
  /\ ret.op = "DeleteConfig"
  /\ ret.existed = FALSE
  /\ configs /= {}

\* C5: StoreConfig and DeleteConfig are single statements, so concurrent calls take
\* effect in some order; in every order the table holds at most one row per name
C5_UniqueName ==
  \A c, d \in configs : c.Name = d.Name => c = d

\* two names of different domains are stored and the older row was upserted again
C5_Witness ==
  /\ ret.op = "StoreConfig"
  /\ Cardinality(configs) = 2
  /\ \E c, d \in configs :
       /\ c.Name = ret.name /\ c.ID = 1 /\ d.ID = 2
       /\ HasPrefix(c.Name, AclAllowListConfKeyPrefix)
       /\ HasPrefix(d.Name, NodeRouteGroupConfKeyPrefix)

(***************************************************************************)
(* Properties of the reorg version.                                        *)
(***************************************************************************)
\* the version a GetReorgVersion call would return now
StoredVersion == GetReorgVersionRes(configs).val

\* C6: with bump calls made one at a time from an empty table, GetReorgVersion
\* returns, without error, the number of bump calls that have returned: 0 before
\* the first, M after M of them
C6_SerialBumpsCount ==
  /\ GetReorgVersionRes(configs) = [val |-> bumps, err |-> "nil"]
  /\ ret.op = "GetReorgVersion" => (ret.val = bumps /\ ret.err = "nil")
  /\ bumps = 0 => configs = {}

\* GetReorgVersion returned 3 after three serialized bumps
C6_Witness ==
  /\ ret.op = "GetReorgVersion"
  /\ ret.val = 3
  /\ bumps = 3
  /\ ~overlapped

\* C7 as stated: the stored reorg version never decreases, also when the bump
\* calls of several callers interleave
C7_NeverDecreases ==
  [][StoredVersion' >= StoredVersion]_vars

\* C7 amended: as long as no bump has started while another was between its read
\* and its write, the stored reorg version never decreases
C7_SerializedNeverDecreases ==
  [][~overlapped' => StoredVersion' >= StoredVersion]_vars

\* three bumps ran one after the other and the version is 3
C7_Witness ==
  /\ ~overlapped
  /\ bumps = 3
  /\ StoredVersion = 3
  /\ ret.op = "createOrUpdateReorgVersion"

\* C8: a bump writes the version it read plus one, whatever the table holds by
\* then, and returns no error; the stored version is never more than the number of
\* bumps that returned, and equals it as long as no two bumps overlapped
C8_LostUpdate ==
  /\ [][\A c \in Callers : BumpWrite(c) => StoredVersion' = version[c] + 1]_vars
  /\ [](/\ ret.op = "createOrUpdateReorgVersion" => ret.err = "nil"
        /\ StoredVersion <= bumps
        /\ ~overlapped => StoredVersion = bumps)

\* two bumps read the same version and both returned: the version advanced by one
C8_Witness ==
  /\ overlapped
  /\ Pending = {}
  /\ bumps = 2
  /\ StoredVersion = 1
  /\ ret = [op |-> "createOrUpdateReorgVersion", caller |-> 2, err |-> "nil"]

(***************************************************************************)
(* Properties of the loaders.                                              *)
(***************************************************************************)
\* the rows of the domain with reserved prefix p
DomainRows(p) == {c \in configs : HasPrefix(c.Name, p)}

\* row c of the domain with prefix p has an empty logical name
EmptyLogicalName(c, p) == c.Name = p

\* the payload of row c is malformed for an allow list or a strategy
MalformedPolicy(c) == UnmarshalPolicy(c.Value).err /= "nil"

\* the payload of row c is malformed for a node route group
MalformedGroup(c) == UnmarshalNodeRouteGroup(c.Value).err /= "nil"

\* the rows of each domain that fail to decode
BadAclRows ==
  {c \in DomainRows(AclAllowListConfKeyPrefix) :
     EmptyLogicalName(c, AclAllowListConfKeyPrefix) \/ MalformedPolicy(c)}

BadStrategyRows ==
  {c \in DomainRows(RateLimitStrategyConfKeyPrefix) :
     EmptyLogicalName(c, RateLimitStrategyConfKeyPrefix) \/ MalformedPolicy(c)}

BadGroupRows ==
  {c \in DomainRows(NodeRouteGroupConfKeyPrefix) :
     EmptyLogicalName(c, NodeRouteGroupConfKeyPrefix) \/ MalformedGroup(c)}

\* C9: a bulk load of a domain with N rows of which K fail to decode returns no
\* error and exactly N - K objects, one for each row that decodes, stamped with
\* that row's id and logical name; with no row it returns nothing and no error
C9_BulkSkipsBadRows ==
  /\ ret.op = "LoadAclAllowListConfigs" =>
       LET rows == DomainRows(AclAllowListConfKeyPrefix)
       IN /\ ret.res.err = "nil"
          /\ Cardinality(DOMAIN ret.res.objs) = Cardinality(rows) - Cardinality(BadAclRows)
          /\ \A c \in rows \ BadAclRows :
               /\ c.ID \in DOMAIN ret.res.objs
               /\ ret.res.objs[c.ID].ID = c.ID
               /\ AclAllowListConfKeyPrefix \o ret.res.objs[c.ID].Name = c.Name
  /\ ret.op = "LoadRateLimitStrategyConfigs" =>
       LET rows == DomainRows(RateLimitStrategyConfKeyPrefix)
       IN /\ ret.res.err = "nil"
          /\ Cardinality(DOMAIN ret.res.objs) = Cardinality(rows) - Cardinality(BadStrategyRows)
          /\ \A c \in rows \ BadStrategyRows :
               /\ c.ID \in DOMAIN ret.res.objs
               /\ ret.res.objs[c.ID].ID = c.ID
               /\ RateLimitStrategyConfKeyPrefix \o ret.res.objs[c.ID].Name = c.Name
  /\ (ret.op = "LoadNodeRouteGroups" /\ ret.groups = <<>>) =>
       LET rows == DomainRows(NodeRouteGroupConfKeyPrefix)
       IN /\ ret.res.err = "nil"
          /\ Cardinality(DOMAIN ret.res.res) = Cardinality(rows) - Cardinality(BadGroupRows)
          /\ \A c \in rows \ BadGroupRows :
               \E n \in DOMAIN ret.res.res :
                 /\ ret.res.res[n].ID = c.ID
                 /\ NodeRouteGroupConfKeyPrefix \o n = c.Name
                 /\ ret.res.res[n].Name = n

\* a bulk load of two allow-list rows, one of which fails to decode, returned one object
C9_Witness ==
  /\ ret.op = "LoadAclAllowListConfigs"
  /\ Cardinality(DomainRows(AclAllowListConfKeyPrefix)) = 2
  /\ Cardinality(BadAclRows) = 1
  /\ Cardinality(DOMAIN ret.res.objs) = 1
  /\ ret.res.err = "nil"

\* the call returned an error and no object
Surfaced(res) == res.err /= "nil" /\ "obj" \notin DOMAIN res

\* C10: a single-object load whose addressed row of the domain exists and fails to
\* decode (malformed payload or empty logical name) returns an error and no object,
\* while the bulk load of the domain returns no error and skips that row
C10_SingleSurfacesError ==
  /\ ret.op = "LoadAclAllowList" =>
       \A c \in BadAclRows :
         c.Name = AclAllowListConfKeyPrefix \o ret.name =>
           /\ Surfaced(ret.res)
           /\ LoadAclAllowListConfigsRes(configs).err = "nil"
           /\ c.ID \notin DOMAIN LoadAclAllowListConfigsRes(configs).objs
  /\ ret.op = "LoadAclAllowListById" =>
       \A c \in BadAclRows :
         c.ID = ret.id =>
           /\ Surfaced(ret.res)
           /\ LoadAclAllowListConfigsRes(configs).err = "nil"
           /\ c.ID \notin DOMAIN LoadAclAllowListConfigsRes(configs).objs
  /\ ret.op = "LoadRateLimitStrategy" =>
       \A c \in BadStrategyRows :
         c.Name = RateLimitStrategyConfKeyPrefix \o ret.name =>
           /\ Surfaced(ret.res)
           /\ LoadRateLimitStrategyConfigsRes(configs).err = "nil"
           /\ c.ID \notin DOMAIN LoadRateLimitStrategyConfigsRes(configs).objs

\* a load by id of an allow-list row with a malformed payload returned the syntax error
C10_Witness ==
  /\ ret.op = "LoadAclAllowListById"
  /\ ret.id = 2
  /\ \E c \in BadAclRows : c.ID = 2 /\ c.Name = AclAllowListConfKeyPrefix \o "a"
  /\ ret.res = [err |-> "SyntaxError"]


\* the validation errors of the three decoders for an empty logical name
NameTooShort ==
  [acl |-> "allowlist name is too short", stg |-> "strategy name is too short",
   grp |-> "route group name is too short"]

\* C11: a record named exactly a domain's prefix is rejected by that domain's
\* decoder with the validation error of an empty logical name, whatever its id and
\* its value, a well-formed payload included: the result carries no object, a load
\* by the empty name returns that error and a bulk load returns nothing for the row
C11_EmptyLogicalNameRejected ==
  /\ \A id \in 0..MaxId : \A v \in Values : \A t \in 0..MaxClock :
       /\ decodeAclAllowLists(conf(id, AclAllowListConfKeyPrefix, v, t, t))
            = [err |-> NameTooShort.acl]
       /\ decodeRateLimitStrategy(conf(id, RateLimitStrategyConfKeyPrefix, v, t, t))
            = [err |-> NameTooShort.stg]
       /\ decodeNodeRouteGroup(conf(id, NodeRouteGroupConfKeyPrefix, v, t, t))
            = [err |-> NameTooShort.grp]
  /\ \A c \in configs :
       /\ c.Name = AclAllowListConfKeyPrefix =>
            /\ LoadAclAllowListRes(configs, "") = [err |-> NameTooShort.acl]
            /\ c.ID \notin DOMAIN LoadAclAllowListConfigsRes(configs).objs
       /\ c.Name = RateLimitStrategyConfKeyPrefix =>
            /\ LoadRateLimitStrategyRes(configs, "") = [err |-> NameTooShort.stg]
            /\ c.ID \notin DOMAIN LoadRateLimitStrategyConfigsRes(configs).objs
       /\ c.Name = NodeRouteGroupConfKeyPrefix =>
            /\ "" \notin DOMAIN LoadNodeRouteGroupsRes(configs, <<>>).res
            /\ "" \notin DOMAIN LoadNodeRouteGroupsRes(configs, <<"">>).res
  /\ (ret.op \in {"LoadAclAllowList", "LoadRateLimitStrategy"} /\ ret.name = ""
        /\ ret.res.err /= "ErrRecordNotFound") =>
       ret.res \in {[err |-> NameTooShort.acl], [err |-> NameTooShort.stg]}

\* a load of the strategy with the empty name found the row named exactly the
\* prefix, holding the well-formed payload, and returned the validation error
C11_Witness ==
  /\ ret.op = "LoadRateLimitStrategy"
  /\ ret.name = ""
  /\ ret.res = [err |-> NameTooShort.stg]
  /\ \E c \in configs : /\ c.Name = RateLimitStrategyConfKeyPrefix
                        /\ UnmarshalPolicy(c.Value).err = "nil"


\* the bulk loaders that return fingerprints
SumLoads == {"LoadAclAllowListConfigs", "LoadRateLimitStrategyConfigs"}

\* the fingerprints the bulk loader of the domain of name n would return on tbl
SumsFor(tbl, n) ==
  IF HasPrefix(n, AclAllowListConfKeyPrefix) THEN LoadAclAllowListConfigsRes(tbl).checksums
  ELSE IF HasPrefix(n, RateLimitStrategyConfKeyPrefix)
       THEN LoadRateLimitStrategyConfigsRes(tbl).checksums
       ELSE NoEntries

\* C12: a bulk load returns for each id the fingerprint of the value the row holds
\* at that load: two bulk loads with no write in between return the same
\* fingerprints, and once StoreConfig has changed a row's value, the bulk load
\* returns the fingerprint of the new value under the row's unchanged id
C12_FingerprintTracksValue ==
  /\ [](ret.op \in SumLoads =>
          \A id \in DOMAIN ret.res.checksums :
            \E c \in configs : c.ID = id /\ ret.res.checksums[id] = md5Sum(c.Value))
  /\ [][(ret.op \in SumLoads /\ ret'.op = ret.op) =>
          ret'.res.checksums = ret.res.checksums]_vars
  /\ [][StoreStep =>
          \A c \in RowsNamed(configs, ret'.name) :
            (c.Value /= ret'.value /\ c.ID \in DOMAIN SumsFor(configs, c.Name)) =>
              /\ c.ID \in DOMAIN SumsFor(configs', c.Name)
              /\ SumsFor(configs', c.Name)[c.ID] = md5Sum(ret'.value)]_vars

\* an allow-list bulk load returned, for a row it had returned a fingerprint for
\* in the load before, another fingerprint: that of the value the row now holds
C12_Witness ==
  /\ ret.op = "LoadAclAllowListConfigs"
  /\ seen.cur = ret.res.checksums
  /\ \E c \in configs :
       /\ c.ID \in DOMAIN seen.prev \cap DOMAIN seen.cur
       /\ seen.prev[c.ID] /= seen.cur[c.ID]
       /\ seen.cur[c.ID] = md5Sum(c.Value)


\* the bulk loaders of the three domains
BulkLoads == SumLoads \cup {"LoadNodeRouteGroups"}

\* the call that returned is a bulk load of a whole domain
BulkLoadReturned ==
  /\ ret.op \in BulkLoads
  /\ ret.op = "LoadNodeRouteGroups" => ret.groups = <<>>

\* C13 as stated: the bulk loader of every one of the three domains returns a
\* mapping from row id to fingerprint whose ids are those of the returned objects
C13_EveryBulkLoaderReturnsSums ==
  BulkLoadReturned =>
    /\ "checksums" \in DOMAIN ret.res
    /\ ret.op \in SumLoads => DOMAIN ret.res.checksums = DOMAIN ret.res.objs
    /\ ret.op = "LoadNodeRouteGroups" =>
         DOMAIN ret.res.checksums = {ret.res.res[n].ID : n \in DOMAIN ret.res.res}

\* C13: the bulk loaders of allow lists and of strategies return, with the objects
\* keyed by row id, the fingerprints keyed by row id, for exactly the rows of the
\* domain that decode; the bulk loader of node route groups returns the groups
\* keyed by name and an error, and no fingerprints
C13_SumsForReturnedObjects ==
  /\ ret.op = "LoadAclAllowListConfigs" =>
       /\ DOMAIN ret.res.checksums = DOMAIN ret.res.objs
       /\ DOMAIN ret.res.checksums
            = {c.ID : c \in DomainRows(AclAllowListConfKeyPrefix) \ BadAclRows}
  /\ ret.op = "LoadRateLimitStrategyConfigs" =>
       /\ DOMAIN ret.res.checksums = DOMAIN ret.res.objs
       /\ DOMAIN ret.res.checksums
            = {c.ID : c \in DomainRows(RateLimitStrategyConfKeyPrefix) \ BadStrategyRows}
  /\ ret.op = "LoadNodeRouteGroups" =>
       /\ DOMAIN ret.res = {"err", "res"}
       /\ \A n \in DOMAIN ret.res.res : ret.res.res[n].Name = n

\* a bulk load of two strategy rows, one of which fails to decode, returned one
\* object and one fingerprint, both under the id of the row that decodes
C13_Witness ==
  /\ ret.op = "LoadRateLimitStrategyConfigs"
  /\ Cardinality(DomainRows(RateLimitStrategyConfKeyPrefix)) = 2
  /\ \E c \in DomainRows(RateLimitStrategyConfKeyPrefix) \ BadStrategyRows :
       /\ BadStrategyRows /= {}
       /\ DOMAIN ret.res.checksums = {c.ID}
       /\ DOMAIN ret.res.objs = {c.ID}


\* C14: a load by a non-empty logical name of a row with a well-formed payload
\* returns an object with the id the row has at the load and with that logical
\* name, also when the payload has members named like the identity fields, and
\* also right after the StoreConfig that created or updated the row
C14_IdentityStamped ==
  /\ [](ret.op = "LoadAclAllowList" =>
          \A c \in RowsNamed(configs, AclAllowListConfKeyPrefix \o ret.name) :
            (ret.name /= "" /\ ~MalformedPolicy(c)) =>
              /\ ret.res.err = "nil"
              /\ ret.res.obj.ID = c.ID /\ ret.res.obj.Name = ret.name)
  /\ [](ret.op = "LoadRateLimitStrategy" =>
          \A c \in RowsNamed(configs, RateLimitStrategyConfKeyPrefix \o ret.name) :
            (ret.name /= "" /\ ~MalformedPolicy(c)) =>
              /\ ret.res.err = "nil"
              /\ ret.res.obj.ID = c.ID /\ ret.res.obj.Name = ret.name)
  /\ [](ret.op = "LoadNodeRouteGroups" =>
          \A i \in 1..Len(ret.groups) :
            \A c \in RowsNamed(configs, NodeRouteGroupConfKeyPrefix \o ret.groups[i]) :
              (ret.groups[i] /= "" /\ ~MalformedGroup(c)) =>
                /\ ret.res.err = "nil"
                /\ ret.groups[i] \in DOMAIN ret.res.res
                /\ ret.res.res[ret.groups[i]].ID = c.ID
                /\ ret.res.res[ret.groups[i]].Name = ret.groups[i])
  /\ [][StoreStep =>
          \A l \in PayloadLogicalNames : \A c \in RowsNamed(configs', ret'.name) :
            /\ ret'.name = AclAllowListConfKeyPrefix \o l =>
                 LoadAclAllowListRes(configs', l).obj.ID = c.ID
            /\ ret'.name = RateLimitStrategyConfKeyPrefix \o l =>
                 LoadRateLimitStrategyRes(configs', l).obj.ID = c.ID
            /\ ret'.name = NodeRouteGroupConfKeyPrefix \o l =>
                 /\ l \in DOMAIN LoadNodeRouteGroupsRes(configs', <<l>>).res
                 /\ LoadNodeRouteGroupsRes(configs', <<l>>).res[l].ID = c.ID]_vars

\* a load of node route group "a" returned the group under id 2 and name "a": the
\* row was deleted and inserted again, with a payload that has members id and name
C14_Witness ==
  /\ ret.op = "LoadNodeRouteGroups"
  /\ ret.groups = <<"a">>
  /\ \E c \in configs :
       /\ c.Name = NodeRouteGroupConfKeyPrefix \o "a"
       /\ c.ID = 2
       /\ [ID |-> 1, Name |-> c.Name] \in allocated
       /\ c.Value = "{\"id\":7,\"name\":\"x\",\"nodes\":[\"w\"]}"
  /\ ret.res.res["a"].ID = 2
  /\ ret.res.res["a"].Name = "a"
  /\ ret.res.res["a"].Nodes = <<"w">>


\* C15: a load by id, id 0 included, of an id that no row has fails with not-found,
\* and an object a load by id returns was built from the row with that id
C15_ByIdAbsentNotFound ==
  ret.op = "LoadAclAllowListById" =>
    /\ (\A c \in configs : c.ID /= ret.id) => ret.res = [err |-> "ErrRecordNotFound"]
    /\ "obj" \in DOMAIN ret.res => ret.res.obj.ID = ret.id


\* the reserved keys: the three prefixes and the singleton key
ReservedKeys == Prefixes \cup {MysqlConfKeyReorgVersion}

\* row c belongs to the domain with prefix p and to no other reserved key
OnlyOf(c, p) ==
  /\ HasPrefix(c.Name, p)
  /\ \A q \in ReservedKeys \ {p} : ~HasPrefix(c.Name, q)

\* C16: no reserved key is a prefix of another, and every object a bulk load
\* returns was decoded from a row whose name starts with the loader's own prefix
\* and with no other reserved key: never from a row of another domain or from
\* the reorg.version row
C16_BulkLoadsOwnDomain ==
  /\ \A p \in ReservedKeys : \A q \in ReservedKeys \ {p} : ~HasPrefix(p, q)
  /\ ret.op = "LoadAclAllowListConfigs" =>
       \A id \in DOMAIN ret.res.objs :
         \E c \in configs : c.ID = id /\ OnlyOf(c, AclAllowListConfKeyPrefix)
  /\ ret.op = "LoadRateLimitStrategyConfigs" =>
       \A id \in DOMAIN ret.res.objs :
         \E c \in configs : c.ID = id /\ OnlyOf(c, RateLimitStrategyConfKeyPrefix)
  /\ ret.op = "LoadNodeRouteGroups" =>
       \A n \in DOMAIN ret.res.res :
         \E c \in configs : c.ID = ret.res.res[n].ID /\ OnlyOf(c, NodeRouteGroupConfKeyPrefix)

\* a bulk load of allow lists returned the one allow-list row and not the strategy
\* row of the same table, whose payload is well formed
C16_Witness ==
  /\ ret.op = "LoadAclAllowListConfigs"
  /\ \E c, d \in configs :
       /\ c.Name = AclAllowListConfKeyPrefix \o "a"
       /\ d.Name = RateLimitStrategyConfKeyPrefix \o "a"
       /\ ~MalformedPolicy(d)
       /\ DOMAIN ret.res.objs = {c.ID}


\* C17: StoreConfig(name, value) on an existing name leaves the table as it was
\* but for that row's value, now the new value, and its updated_at, now the time
\* of the call; on an absent name it adds one row, of that name and value, and
\* changes no other row
C17_UpdateFrame ==
  [][StoreStep =>
       IF RowsNamed(configs, ret'.name) /= {}
       THEN \E c \in RowsNamed(configs, ret'.name) :
              configs' = (configs \ {c})
                           \cup {[c EXCEPT !.Value = ret'.value, !.UpdatedAt = now]}
       ELSE /\ configs \subseteq configs'
            /\ Cardinality(configs' \ configs) = 1
            /\ \A r \in configs' \ configs : r.Name = ret'.name /\ r.Value = ret'.value]_vars


\* s is a decimal integer: digits, after an optional sign
Decimal(s) ==
  /\ Len(s) > 0
  /\ \A i \in 1..Len(s) :
       \/ IsDigit(SubSeq(s, i, i))
       \/ i = 1 /\ Len(s) > 1 /\ SubSeq(s, 1, 1) \in {"+", "-"}

\* the reorg.version row exists and its value is no decimal integer
NonDecimalVersion ==
  \E c \in RowsNamed(configs, MysqlConfKeyReorgVersion) : ~Decimal(c.Value)

\* C18: while the reorg.version row holds a value that is no decimal integer,
\* GetReorgVersion returns the parse error, and a bump that starts returns that
\* error at once: it takes no step towards its write and the table is unchanged
C18_NonNumericVersionFails ==
  /\ []((ret.op = "GetReorgVersion" /\ NonDecimalVersion) => ret.err = "ErrSyntax")
  /\ [][\A c \in Callers :
          (NonDecimalVersion /\ BumpRead(c)) =>
            /\ ret' = [op |-> "createOrUpdateReorgVersion", caller |-> c, err |-> "ErrSyntax"]
            /\ configs' = configs /\ autoInc' = autoInc
            /\ pc' = pc /\ bumps' = bumps]_vars

\* a bump returned the parse error; the row it read still holds the text "7x",
\* stored after an earlier bump had created the row with version 1
C18_Witness ==
  /\ ret.op = "createOrUpdateReorgVersion"
  /\ ret.err = "ErrSyntax"
  /\ bumps = 1
  /\ \E c \in configs : c.Name = MysqlConfKeyReorgVersion /\ c.Value = "7x" /\ c.ID = 1
  /\ Pending = {}


\* C19: a load by the id of a row whose name does not start with the allow-list
\* prefix returns an error: it returns no object and it does not panic
C19_ByIdOtherDomainFails ==
  ret.op = "LoadAclAllowListById" =>
    \A c \in configs :
      (c.ID = ret.id /\ ~HasPrefix(c.Name, AclAllowListConfKeyPrefix)) =>
        /\ ret.res.err \notin {"nil", "panic"}
        /\ "obj" \notin DOMAIN ret.res


\* a StoreNodeRouteGroup step, whose group and result ret' records
StoreGroupStep == ret'.op = "StoreNodeRouteGroup" /\ StoreNodeRouteGroup(ret'.group)

\* C20: every row of the node-route domain has a non-empty logical name; a group
\* that StoreNodeRouteGroup accepted is returned by a load of all groups right
\* after, under its name and with its nodes in their order, and a load of all
\* groups returns every row of the domain with the nodes stored in it
C20_StoredGroupsLoadable ==
  /\ [](\A c \in DomainRows(NodeRouteGroupConfKeyPrefix) :
          ~EmptyLogicalName(c, NodeRouteGroupConfKeyPrefix))
  /\ [][(StoreGroupStep /\ ret'.err = "nil") =>
          LET r == LoadNodeRouteGroupsRes(configs', <<>>)
          IN /\ r.err = "nil"
             /\ ret'.group.Name \in DOMAIN r.res
             /\ r.res[ret'.group.Name].Nodes = ret'.group.Nodes]_vars
  /\ []((ret.op = "LoadNodeRouteGroups" /\ ret.groups = <<>>) =>
          \A c \in DomainRows(NodeRouteGroupConfKeyPrefix) :
            \E n \in DOMAIN ret.res.res :
              /\ NodeRouteGroupConfKeyPrefix \o n = c.Name
              /\ MarshalNodeRouteGroup(ret.res.res[n]) = c.Value)

====
